---- MODULE Spec2Model ----
(***************************************************************************)
(* Model of transportationProblem.py: the multi-commodity flow LP built by *)
(* solve_multicommodity_flow, its solve, its report, and the module-level  *)
(* script that runs the scenario without and with the ferry arc 2 <-> 6.   *)
(*                                                                         *)
(* Conventions.  A node '1'..'7' is the integer 1..7.  A Python list is a  *)
(* sequence, a dict is a function whose DOMAIN is its key set.  Distances  *)
(* and objective values are integers in units of 0.1 km (3.5 km is 35), so *)
(* the recorded objective 399250.00 km is 3992500.  A printed "%.2f" value *)
(* is the integer number of hundredths.  A gurobi variable is its column   *)
(* index in model.vars, a linear expression is the vector of its           *)
(* coefficients over the columns.                                          *)
(***************************************************************************)
EXTENDS Integers, Sequences, FiniteSets, TLC

VARIABLES
  heap,                    \* object store: reference -> list or dict
  pc,                      \* position in the script / in the function
  caller,                  \* which call site the running call returns to
  loc,                     \* the call's parameters: references into heap
  with_ferry,              \* the call's with_ferry argument
  ci,                      \* index of the commodity a builder loop is at
  flow,                    \* the call's dict flow: (commodity, i, j) -> column
  model,                   \* the call's gp.Model: vars, objective, constrs
  status,                  \* model.status after optimize()
  x,                       \* the solution values (Var.x) by column
  distance_without_ferry,  \* module-level result of scenario 1
  distance_with_ferry,     \* module-level result of scenario 2
  distance_reduction,      \* module-level, set by the comparison
  percent_reduction,       \* module-level, set by the comparison
  out,                     \* everything printed so far
  builds                   \* history: one record per call that reached optimize()

vars == <<heap, pc, caller, loc, with_ferry, ci, flow, model, status, x,
          distance_without_ferry, distance_with_ferry, distance_reduction,
          percent_reduction, out, builds>>

(***************************************************************************)
(* Generic helpers.                                                        *)
(***************************************************************************)
Range(s) == {s[k] : k \in DOMAIN s}

RECURSIVE SumTo(_, _)
\* f[1] + ... + f[n]
SumTo(f, n) == IF n = 0 THEN 0 ELSE f[n] + SumTo(f, n - 1)

\* sum(f) for a vector f over 1..n
Sum(f) == SumTo(f, Cardinality(DOMAIN f))

\* dict.get(key, default)
Get(d, key, default) == IF key \in DOMAIN d THEN d[key] ELSE default

\* d[key] = value
Put(d, key, value) ==
  [k \in DOMAIN d \cup {key} |-> IF k = key THEN value ELSE d[k]]

\* Python's None, and a returned number v, as values of one kind
None == <<>>

Some(v) == <<v>>

(***************************************************************************)
(* The commodity table of solve_multicommodity_flow.                       *)
(***************************************************************************)
CommodityIds == <<"O1", "O4", "O5">>

\* a faulty table: commodity O1 does not declare node 7
commodities_short ==
  [O1 |-> [origin |-> 1, destinations |-> <<2, 3, 4, 5, 6>>],
   O4 |-> [origin |-> 4, destinations |-> <<1, 2, 3, 5, 6, 7>>],
   O5 |-> [origin |-> 5, destinations |-> <<1, 2, 3, 4, 6, 7>>]]

commodities ==
  [O1 |-> [origin |-> 1, destinations |-> <<2, 3, 4, 5, 6, 7>>],
   O4 |-> [origin |-> 4, destinations |-> <<1, 2, 3, 5, 6, 7>>],
   O5 |-> [origin |-> 5, destinations |-> <<1, 2, 3, 4, 6, 7>>]]

FerryCapacity == 2000

ferry_distance == 0

(***************************************************************************)
(* The module-level parameters (the reference dataset).                    *)
(***************************************************************************)
nodes == <<1, 2, 3, 4, 5, 6, 7>>

edges ==
  << <<1, 2>>, <<2, 1>>, <<2, 3>>, <<3, 4>>, <<3, 2>>,
     <<4, 5>>, <<4, 3>>, <<5, 6>>, <<5, 4>>,
     <<6, 7>>, <<6, 5>>, <<7, 6>> >>

travel_demand ==
  ( <<1, 2>> :> 900  @@ <<1, 3>> :> 750  @@ <<1, 4>> :> 40 @@
    <<1, 5>> :> 10   @@ <<1, 6>> :> 600  @@ <<1, 7>> :> 550 @@
    <<4, 5>> :> 150  @@ <<4, 6>> :> 1400 @@ <<4, 7>> :> 1250 @@
    <<4, 1>> :> 100  @@ <<4, 2>> :> 2000 @@ <<4, 3>> :> 1100 @@
    <<5, 6>> :> 3300 @@ <<5, 7>> :> 2440 @@ <<5, 4>> :> 200 @@
    <<5, 1>> :> 110  @@ <<5, 2>> :> 4000 @@ <<5, 3>> :> 2200 )

distances ==
  ( <<1, 2>> :> 35  @@ <<2, 1>> :> 35 @@
    <<2, 3>> :> 30  @@ <<3, 2>> :> 30 @@
    <<3, 4>> :> 50  @@ <<4, 3>> :> 50 @@
    <<4, 5>> :> 250 @@ <<5, 4>> :> 250 @@
    <<5, 6>> :> 40  @@ <<6, 5>> :> 40 @@
    <<6, 7>> :> 25  @@ <<7, 6>> :> 25 )

(***************************************************************************)
(* Further parameter sets the function is exercised with: small networks   *)
(* none of which contains the arcs 2 -> 6 or 6 -> 2 that the ferry         *)
(* scenario adds.                                                          *)
(***************************************************************************)
\* two origins whose traffic to node 6 shares the crossing; by road it goes
\* 2 -> 8 -> 9 -> 6 through two nodes that no commodity declares
TwoOrigins ==
  [nodes |-> <<1, 2, 8, 9, 4, 6>>,
   edges |-> << <<1, 2>>, <<4, 2>>, <<2, 8>>, <<8, 9>>, <<9, 6>> >>,
   travel_demand |-> (<<1, 6>> :> 2000 @@ <<4, 6>> :> 1000),
   distances |-> (<<1, 2>> :> 10 @@ <<4, 2>> :> 10 @@ <<2, 8>> :> 20 @@
                  <<8, 9>> :> 10 @@ <<9, 6>> :> 10)]

\* node 6 cannot be reached by road, and the only road has no recorded distance
NoRoad ==
  [nodes |-> <<1, 2, 6>>,
   edges |-> << <<1, 2>> >>,
   travel_demand |-> (<<1, 6>> :> 1000 @@ <<1, 2>> :> 500),
   distances |-> (<<6, 1>> :> 15)]

Reference ==
  [nodes |-> nodes, edges |-> edges,
   travel_demand |-> travel_demand, distances |-> distances]

DataSets == {Reference, TwoOrigins, NoRoad}

(***************************************************************************)
(* The object store.  The module-level names nodes, edges, travel_demand   *)
(* and distances are bound to four references for the whole run; a     *)
(* call's parameters are bound to whatever references the caller passes.   *)
(***************************************************************************)
NodesRef == "nodes"
EdgesRef == "edges"
DemandRef == "travel_demand"
DistancesRef == "distances"

ModuleRefs == {NodesRef, EdgesRef, DemandRef, DistancesRef}

\* the reference a call receives for the argument obj.copy(): a new object
CopyRef(ref) ==
  CASE ref = NodesRef -> "nodes.copy()"
    [] ref = EdgesRef -> "edges.copy()"
    [] ref = DemandRef -> "travel_demand.copy()"
    [] ref = DistancesRef -> "distances.copy()"

NoLoc == [nodes |-> NodesRef, edges |-> EdgesRef,
          travel_demand |-> DemandRef, distances |-> DistancesRef]

EmptyModel == [vars |-> <<>>, obj |-> <<>>, constrs |-> <<>>]

(***************************************************************************)
(* The builder's expressions.                                              *)
(***************************************************************************)
NumVars(m) == Len(m.vars)

\* the zero linear expression over the model's columns
ZeroExpr(m) == [k \in 1..NumVars(m) |-> 0]

\* the linear expression that is the single variable of column col
VarExpr(m, col) == [k \in 1..NumVars(m) |-> IF k = col THEN 1 ELSE 0]

Plus(e1, e2) == [k \in DOMAIN e1 |-> e1[k] + e2[k]]

Minus(e1, e2) == [k \in DOMAIN e1 |-> e1[k] - e2[k]]

\* a faulty builder: the distance of an edge is left out of its term
Unscaled(e, a) == e

Scale(e, a) == [k \in DOMAIN e |-> a * e[k]]

RECURSIVE QuickSum(_, _, _)
\* gp.quicksum over the first n terms of the list terms
QuickSum(m, terms, n) ==
  IF n = 0 THEN ZeroExpr(m)
  ELSE Plus(QuickSum(m, terms, n - 1), terms[n])

\* a constraint's name: flow_conservation_{commodity}_{node}, or a fixed text
ConstrName(text, commodity, node) ==
  [text |-> text, commodity |-> commodity, node |-> node]

\* one model.addConstr(lhs sense rhs, name)
Constr(name, lhs, sense, rhs) ==
  [name |-> name, lhs |-> lhs, sense |-> sense, rhs |-> rhs]

\* flow_in of a node for a commodity (lines 43-44)
flow_in(m, fl, ns, es, commodity, node) ==
  LET from == SelectSeq(ns, LAMBDA i : <<i, node>> \in Range(es))
      terms == [k \in 1..Len(from) |-> VarExpr(m, fl[<<commodity, from[k], node>>])]
  IN QuickSum(m, terms, Len(terms))

\* flow_out of a node for a commodity (lines 45-46)
flow_out(m, fl, ns, es, commodity, node) ==
  LET to == SelectSeq(ns, LAMBDA j : <<node, j>> \in Range(es))
      terms == [k \in 1..Len(to) |-> VarExpr(m, fl[<<commodity, node, to[k]>>])]
  IN QuickSum(m, terms, Len(terms))

RECURSIVE SumDemand(_, _, _, _)
\* sum of travel_demand.get((origin, dest), 0) over the first n destinations
SumDemand(td, origin, dests, n) ==
  IF n = 0 THEN 0
  ELSE SumDemand(td, origin, dests, n - 1) + Get(td, <<origin, dests[n]>>, 0)

\* a faulty builder: a node that is neither the origin nor a declared
\* destination gets a row that constrains nothing
ConservationConstrLax(m, fl, ns, es, td, commodity, node) ==
  LET details == commodities[commodity]
      origin == details.origin
      fin == flow_in(m, fl, ns, es, commodity, node)
      fout == flow_out(m, fl, ns, es, commodity, node)
      name == ConstrName("flow_conservation", commodity, node)
  IN IF node = origin
       THEN Constr(name, Minus(fout, fin), "=",
                   SumDemand(td, origin, details.destinations,
                             Len(details.destinations)))
     ELSE IF node \in Range(details.destinations)
       THEN Constr(name, Minus(fin, fout), "=", Get(td, <<origin, node>>, 0))
     ELSE Constr(name, ZeroExpr(m), "=", 0)

\* the conservation constraint of one commodity at one node (lines 48-67)
ConservationConstr(m, fl, ns, es, td, commodity, node) ==
  LET details == commodities[commodity]
      origin == details.origin
      fin == flow_in(m, fl, ns, es, commodity, node)
      fout == flow_out(m, fl, ns, es, commodity, node)
      name == ConstrName("flow_conservation", commodity, node)
  IN IF node = origin
       THEN Constr(name, Minus(fout, fin), "=",
                   SumDemand(td, origin, details.destinations,
                             Len(details.destinations)))
     ELSE IF node \in Range(details.destinations)
       THEN Constr(name, Minus(fin, fout), "=", Get(td, <<origin, node>>, 0))
     ELSE Constr(name, Minus(fin, fout), "=", 0)

RECURSIVE AddVarsFor(_, _, _, _, _)
\* the inner loop of lines 25-27 over the first n edges: one addVar per edge,
\* the dict entry of a repeated edge overwritten by the later column
AddVarsFor(m, fl, commodity, es, n) ==
  IF n = 0 THEN [model |-> m, flow |-> fl]
  ELSE LET prev == AddVarsFor(m, fl, commodity, es, n - 1)
           key == <<commodity, es[n][1], es[n][2]>>
           var == [name |-> key, lb |-> 0, vtype |-> "CONTINUOUS"]
       IN [model |-> [prev.model EXCEPT !.vars = Append(@, var),
                                        !.obj = Append(@, 0)],
           flow |-> Put(prev.flow, key, Len(prev.model.vars) + 1)]

RECURSIVE ObjectiveTerms(_, _, _, _, _)
\* the terms of the generator of lines 31-34 for the first n commodities
ObjectiveTerms(m, fl, es, dist, n) ==
  IF n = 0 THEN <<>>
  ELSE LET known == SelectSeq(es, LAMBDA e : e \in DOMAIN dist)
       IN ObjectiveTerms(m, fl, es, dist, n - 1) \o
          [k \in 1..Len(known) |->
             Scale(VarExpr(m, fl[<<CommodityIds[n], known[k][1], known[k][2]>>]),
                   Get(dist, known[k], 0))]

\* the objective expression of lines 30-36
Objective(m, fl, es, dist) ==
  LET terms == ObjectiveTerms(m, fl, es, dist, Len(CommodityIds))
  IN QuickSum(m, terms, Len(terms))

\* the constraints the loop of lines 41-67 adds for one commodity
ConservationConstrs(m, fl, ns, es, td, commodity) ==
  [k \in 1..Len(ns) |-> ConservationConstr(m, fl, ns, es, td, commodity, ns[k])]

\* a faulty builder: the capacity bounds the first commodity alone
CapacityConstrFirstCommodity(m, fl, text, i, j) ==
  Constr(ConstrName(text, "", 0), VarExpr(m, fl[<<CommodityIds[1], i, j>>]),
         "<=", FerryCapacity)

\* a faulty builder: the capacity bounds the flow on every arc together
CapacityConstrAllArcs(m, fl, text, i, j) ==
  Constr(ConstrName(text, "", 0), [k \in 1..NumVars(m) |-> 1], "<=", FerryCapacity)

\* the capacity constraint on one ferry direction (lines 72-81)
CapacityConstr(m, fl, text, i, j) ==
  LET terms == [k \in 1..Len(CommodityIds) |->
                  VarExpr(m, fl[<<CommodityIds[k], i, j>>])]
  IN Constr(ConstrName(text, "", 0), QuickSum(m, terms, Len(terms)),
            "<=", FerryCapacity)

(***************************************************************************)
(* Printing.                                                               *)
(***************************************************************************)
\* one printed line: its fixed text, the commodity it names, its numbers
Line(text, who, args) == [text |-> text, who |-> who, args |-> args]

\* f"{num/den:.2f}" for num >= 0, den > 0, as a number of hundredths
Fmt2(num, den) ==
  LET whole == num \div den
      r1 == (num % den) * 100
      frac == r1 \div den
      r2 == r1 % den
  IN whole * 100 + frac + (IF 2 * r2 >= den THEN 1 ELSE 0)

\* Var.x of a column
ReadX(xs, col) == IF col \in DOMAIN xs THEN xs[col] ELSE 0

\* model.objVal
ObjVal(m, xs) == Sum([k \in 1..NumVars(m) |-> m.obj[k] * ReadX(xs, k)])

\* edge_flows of one edge (lines 95-99): the commodities with flow above 1e-6
EdgeFlows(fl, xs, i, j) ==
  SelectSeq(CommodityIds, LAMBDA c : ReadX(xs, fl[<<c, i, j>>]) > 0)

\* the "    {commodity}: {value:.2f}" lines of one edge
FlowLines(text, fl, xs, i, j) ==
  LET cs == EdgeFlows(fl, xs, i, j)
  IN [k \in 1..Len(cs) |->
        Line(text, cs[k], <<Fmt2(ReadX(xs, fl[<<cs[k], i, j>>]), 1)>>)]

\* sum(edge_flows.values())
EdgeTotal(fl, xs, i, j) ==
  LET cs == EdgeFlows(fl, xs, i, j)
  IN Sum([k \in 1..Len(cs) |-> ReadX(xs, fl[<<cs[k], i, j>>])])

RECURSIVE EdgeLines(_, _, _, _)
\* what the loop of lines 94-106 prints for the first n edges
EdgeLines(fl, xs, es, n) ==
  IF n = 0 THEN <<>>
  ELSE LET i == es[n][1]
           j == es[n][2]
       IN EdgeLines(fl, xs, es, n - 1) \o
          (IF EdgeFlows(fl, xs, i, j) = <<>> THEN <<>>
           ELSE <<Line("Edge i -> j:", "", <<i, j>>),
                  Line("  Total Flow:", "", <<Fmt2(EdgeTotal(fl, xs, i, j), 1)>>)>>
                \o FlowLines("    commodity:", fl, xs, i, j))

\* what lines 110-135 print
FerryLines(fl, xs) ==
  <<Line("Ferry Usage:", "", <<>>), Line("2 -> 6 Ferry Flows:", "", <<>>)>>
  \o FlowLines("  commodity:", fl, xs, 2, 6)
  \o <<Line("Total 2 -> 6 Flow:", "", <<Fmt2(EdgeTotal(fl, xs, 2, 6), 1)>>),
       Line("6 -> 2 Ferry Flows:", "", <<>>)>>
  \o FlowLines("  commodity:", fl, xs, 6, 2)
  \o <<Line("Total 6 -> 2 Flow:", "", <<Fmt2(EdgeTotal(fl, xs, 6, 2), 1)>>)>>

\* a faulty report: the objective value is read whatever the status
OutcomeUnchecked(st, m, fl, xs, es, ferry) ==
  [result |-> Some(ObjVal(m, xs)),
   reads |-> {"objVal"},
   lines |-> <<Line("Total Driving Distance:", "", <<Fmt2(ObjVal(m, xs), 10)>>)>>]

(***************************************************************************)
(* What lines 86-140 do with the solver's answer: the value returned, the  *)
(* solver attributes read, and the lines printed.                          *)
(***************************************************************************)
Outcome(st, m, fl, xs, es, ferry) ==
  IF st = "Optimal"
    THEN [result |-> Some(ObjVal(m, xs)),
          reads |-> {"objVal", "x"},
          lines |-> <<Line(IF ferry THEN "With Ferry:" ELSE "Without Ferry:", "", <<>>),
                      Line("Total Driving Distance:", "", <<Fmt2(ObjVal(m, xs), 10)>>),
                      Line("Edge Flows:", "", <<>>)>>
                    \o EdgeLines(fl, xs, es, Len(es))
                    \o (IF ferry THEN FerryLines(fl, xs) ELSE <<>>)]
    ELSE [result |-> None,
          reads |-> {},
          lines |-> <<Line("No optimal solution available", "", <<>>)>>]

(***************************************************************************)
(* The solver behind model.optimize() (line 84).  It is outside the        *)
(* repository; what the program relies on is its contract: status OPTIMAL  *)
(* comes with values x that minimise the objective subject to the          *)
(* constraints and the lower bounds.  The contract is stated with the LP   *)
(* duality certificate: x is optimal if it is feasible and some dual       *)
(* vector y is feasible with the same objective value.  Candidates for y   *)
(* and x are searched by pricing the "<=" rows and routing every commodity *)
(* along cheapest paths; whatever the search proposes is accepted only     *)
(* with its certificate, which is checked against the built model alone.   *)
(***************************************************************************)
Rows(m) == 1..Len(m.constrs)

Cols(m) == 1..NumVars(m)

\* the value of a linear expression at xs
Dot(e, xs) == Sum([k \in DOMAIN e |-> e[k] * xs[k]])

Satisfies(c, xs) ==
  IF c.sense = "=" THEN Dot(c.lhs, xs) = c.rhs ELSE Dot(c.lhs, xs) <= c.rhs

PrimalFeasible(m, xs) ==
  /\ \A k \in Cols(m) : xs[k] >= m.vars[k].lb
  /\ \A r \in Rows(m) : Satisfies(m.constrs[r], xs)

\* objective coefficient of column k minus its column of the constraint
\* matrix priced at y
ReducedCost(m, y, k) ==
  m.obj[k] - Sum([r \in Rows(m) |-> m.constrs[r].lhs[k] * y[r]])

DualFeasible(m, y) ==
  /\ \A r \in Rows(m) : m.constrs[r].sense = "<=" => y[r] <= 0
  /\ \A k \in Cols(m) : ReducedCost(m, y, k) >= 0

DualObj(m, y) == Sum([r \in Rows(m) |-> m.constrs[r].rhs * y[r]])

\* the optimality certificate of xs
Certifies(m, xs, y) ==
  /\ PrimalFeasible(m, xs)
  /\ DualFeasible(m, y)
  /\ ObjVal(m, xs) = DualObj(m, y)

\* the rows with an inequality, whose price is searched
PricedRows(m) == {r \in Rows(m) : m.constrs[r].sense = "<="}

\* the columns that take part in a priced row
PricedCols(m) == {k \in Cols(m) : \E r \in PricedRows(m) : m.constrs[r].lhs[k] # 0}

\* the columns that take part in some row
LiveCols(m) == {k \in Cols(m) : \E r \in Rows(m) : m.constrs[r].lhs[k] # 0}

\* the nodes that have a conservation row for the commodity
RowNodes(m, commodity) ==
  {m.constrs[r].name.node :
     r \in {q \in Rows(m) : m.constrs[q].name.commodity = commodity}}

\* more than any path can cost
Far(m, price) ==
  1 + Sum([k \in Cols(m) |-> m.obj[k]]) + Sum([r \in Rows(m) |-> price[r]])

\* cost of the arc of column k with the priced rows charged
ArcCost(m, price, k) ==
  m.obj[k] + Sum([r \in Rows(m) |->
                    IF r \in PricedRows(m) THEN price[r] * m.constrs[r].lhs[k] ELSE 0])

Min(S) == CHOOSE a \in S : \A b \in S : a <= b

RECURSIVE Relax(_, _, _, _, _, _)
\* Bellman-Ford: t rounds of relaxation of the distances d over the arcs
Relax(m, price, arcs, ns, d, t) ==
  IF t = 0 THEN d
  ELSE Relax(m, price, arcs, ns,
             [n \in ns |->
                Min({d[n]} \cup
                    {d[m.vars[k].name[2]] + ArcCost(m, price, k) :
                       k \in {a \in arcs : m.vars[a].name[3] = n}})] @@ <<>>,
             t - 1)

\* cheapest path cost from source to every node over the arcs
ShortestPaths(m, price, arcs, ns, source) ==
  LET far == Far(m, price)
      d == Relax(m, price, arcs, ns,
                 [n \in ns |-> IF n = source THEN 0 ELSE far] @@ <<>>,
                 Cardinality(ns))
  IN [n \in ns |-> IF d[n] >= far THEN far ELSE d[n]] @@ <<>>

\* the arcs of a commodity: its live columns between nodes with a row
Arcs(m, commodity) ==
  {k \in LiveCols(m) : /\ m.vars[k].name[1] = commodity
                       /\ m.vars[k].name[2] \in RowNodes(m, commodity)
                       /\ m.vars[k].name[3] \in RowNodes(m, commodity)}

NoPrice(m) == [r \in Rows(m) |-> 0]

\* the prices of row r at which some commodity is indifferent between a
\* cheapest unpriced path to a node and the cheapest path through r's arc
TiePrices(m, r) ==
  {0} \cup UNION {
    LET c == m.vars[k].name[1]
        ns == RowNodes(m, c)
        free == Arcs(m, c) \ PricedCols(m)
        far == Far(m, NoPrice(m))
        d0 == ShortestPaths(m, NoPrice(m), free, ns, commodities[c].origin)
        dv == ShortestPaths(m, NoPrice(m), free, ns, m.vars[k].name[3])
        u == m.vars[k].name[2]
    IN {d0[n] - (d0[u] + m.obj[k] + dv[n]) :
          n \in {q \in ns : /\ d0[q] < far /\ d0[u] < far /\ dv[q] < far
                            /\ d0[q] > d0[u] + m.obj[k] + dv[q]}} :
    k \in {a \in PricedCols(m) : /\ m.constrs[r].lhs[a] # 0
                                  /\ a \in Arcs(m, m.vars[a].name[1])}}

\* the dual vector of a price vector: node potentials on the conservation
\* rows (negated on the origin's row, which is written out - in), minus
\* the price on the priced rows
DualOf(m, price) ==
  LET pot == [c \in Range(CommodityIds) |->
                ShortestPaths(m, price, Arcs(m, c), RowNodes(m, c),
                              commodities[c].origin)] @@ <<>>
  IN [r \in Rows(m) |->
        LET row == m.constrs[r]
        IN IF r \in PricedRows(m) THEN 0 - price[r]
           ELSE IF row.name.node = commodities[row.name.commodity].origin
             THEN 0 - pot[row.name.commodity][row.name.node]
           ELSE pot[row.name.commodity][row.name.node]] @@ <<>>

\* the rows that hold with equality in every optimal solution, given y
TightRows(m, y) == {r \in Rows(m) : m.constrs[r].sense = "=" \/ y[r] # 0}

\* the columns with a non-zero coefficient, by row
Support(m) == [r \in Rows(m) |-> {k \in Cols(m) : m.constrs[r].lhs[k] # 0}] @@ <<>>

RECURSIVE SumOver(_, _)
\* the sum of f over the set S of arguments
SumOver(S, f) ==
  IF S = {} THEN 0
  ELSE LET e == CHOOSE q \in S : TRUE IN f[e] + SumOver(S \ {e}, f)

\* the columns of row r not yet assigned by a
OpenCols(sup, a, r) == sup[r] \ DOMAIN a

\* the right-hand side of row r less the assigned part of its left-hand side
Residual(m, sup, a, r) ==
  m.constrs[r].rhs -
  SumOver(sup[r] \cap DOMAIN a, [k \in sup[r] \cap DOMAIN a |-> m.constrs[r].lhs[k] * a[k]])

RECURSIVE Implied(_, _, _, _)
\* the values forced on top of the partial assignment a by the tight rows
\* that have a single open column; an assignment to column 0, which no
\* model has, marks a contradiction
Implied(m, sup, tight, a) ==
  LET unit == {r \in tight : Cardinality(OpenCols(sup, a, r)) = 1}
  IN IF \E r \in tight : OpenCols(sup, a, r) = {} /\ Residual(m, sup, a, r) # 0
       THEN [k \in {0} |-> 0]
     ELSE IF unit = {} THEN a
     ELSE LET r == CHOOSE q \in unit : TRUE
              k == CHOOSE q \in OpenCols(sup, a, r) : TRUE
              coef == m.constrs[r].lhs[k]
              res == Residual(m, sup, a, r)
              num == IF coef < 0 THEN 0 - res ELSE res
              den == IF coef < 0 THEN 0 - coef ELSE coef
          IN IF num < 0 \/ num % den # 0
               THEN [q \in {0} |-> 0]
             ELSE Implied(m, sup, tight, (k :> num \div den) @@ a)

\* a partial assignment that met a contradiction
Contradictory(a) == 0 \in DOMAIN a

\* complementary slackness: a column with positive reduced cost is 0
ForcedZero(m, y) ==
  [k \in {q \in Cols(m) : ReducedCost(m, y, q) > 0} |-> 0] @@ <<>>

RECURSIVE Completions(_, _, _, _)
\* the complete assignments reached from a by forcing, and, where nothing is
\* forced, by putting one open column to 0 (a vertex has no free column)
Completions(m, sup, tight, a) ==
  LET b == Implied(m, sup, tight, a)
  IN IF Contradictory(b) THEN {}
     ELSE IF DOMAIN b = Cols(m) THEN {b}
     ELSE UNION {Completions(m, sup, tight, (k :> 0) @@ b) : k \in Cols(m) \ DOMAIN b}

\* the price vectors searched: on every priced row one of its tie prices
PriceVectors(m) ==
  LET ties == [r \in PricedRows(m) |-> TiePrices(m, r)] @@ <<>>
  IN {[r \in Rows(m) |-> IF r \in PricedRows(m) THEN p[r] ELSE 0] @@ <<>> :
        p \in {q \in [PricedRows(m) -> UNION {ties[r] : r \in PricedRows(m)}] :
                 \A r \in PricedRows(m) : q[r] \in ties[r]}}

\* the optimal solutions found, each with its certificate checked
OptimalSolutions(m) ==
  LET sup == Support(m)
  IN UNION {LET y == DualOf(m, price)
            IN {xs \in Completions(m, sup, TightRows(m, y), ForcedZero(m, y)) :
                  Certifies(m, xs, y)} :
            price \in PriceVectors(m)}

(***************************************************************************)
(* The state machine.                                                      *)
(***************************************************************************)
MaxCalls == 3

InitWith(start) ==
  /\ \E ds \in DataSets :
        heap = [r \in ModuleRefs |->
                  CASE r = NodesRef -> ds.nodes
                    [] r = EdgesRef -> ds.edges
                    [] r = DemandRef -> ds.travel_demand
                    [] r = DistancesRef -> ds.distances]
  /\ pc = start
  /\ caller = "none"
  /\ loc = NoLoc
  /\ with_ferry = FALSE
  /\ ci = 0
  /\ flow = <<>>
  /\ model = EmptyModel
  /\ status = "Loaded"
  /\ x = <<>>
  /\ distance_without_ferry = None
  /\ distance_with_ferry = None
  /\ distance_reduction = None
  /\ percent_reduction = None
  /\ out = <<>>
  /\ builds = <<>>

\* the module-level script starts at line 165
Init == InitWith("scenario1")

\* a faulty caller: the module-level object itself is passed
alias(ref) == ref

\* the argument obj.copy() of a call (lines 167-170, 176-179)
copy(ref) == CopyRef(ref)

\* a call solve_multicommodity_flow(nodes.copy(), edges.copy(),
\* travel_demand.copy(), distances.copy(), with_ferry=ferry) up to line 12
Enter(site, ferry) ==
  /\ heap' = [r \in ModuleRefs \cup {CopyRef(q) : q \in ModuleRefs} |->
                IF r \in ModuleRefs THEN heap[r]
                ELSE heap[CHOOSE q \in ModuleRefs : CopyRef(q) = r]]
  /\ loc' = [nodes |-> copy(NodesRef), edges |-> copy(EdgesRef),
             travel_demand |-> copy(DemandRef), distances |-> copy(DistancesRef)]
  /\ caller' = site
  /\ with_ferry' = ferry
  /\ ci' = 1
  /\ flow' = <<>>
  /\ model' = EmptyModel
  /\ status' = "Loaded"
  /\ x' = <<>>
  /\ pc' = IF ferry THEN "ferry" ELSE "vars"

\* lines 165-172
Scenario1 ==
  /\ pc = "scenario1"
  /\ Enter("scenario1", FALSE)
  /\ out' = Append(out, Line("Scenario 1: Without Ferry", "", <<>>))
  /\ UNCHANGED <<distance_without_ferry, distance_with_ferry,
                 distance_reduction, percent_reduction, builds>>

\* lines 174-181
Scenario2 ==
  /\ pc = "scenario2"
  /\ Enter("scenario2", TRUE)
  /\ out' = Append(out, Line("Scenario 2: With Ferry", "", <<>>))
  /\ UNCHANGED <<distance_without_ferry, distance_with_ferry,
                 distance_reduction, percent_reduction, builds>>

\* lines 15-20
AddFerry ==
  /\ pc = "ferry"
  /\ heap' = [heap EXCEPT
       ![loc.distances] = Put(Put(@, <<2, 6>>, ferry_distance), <<6, 2>>, ferry_distance),
       ![loc.edges] = Append(Append(@, <<2, 6>>), <<6, 2>>)]
  /\ pc' = "vars"
  /\ UNCHANGED <<caller, loc, with_ferry, ci, flow, model, status, x,
                 distance_without_ferry, distance_with_ferry,
                 distance_reduction, percent_reduction, out, builds>>

\* one iteration of the outer loop of lines 24-27
AddVars ==
  /\ pc = "vars"
  /\ LET es == heap[loc.edges]
         r == AddVarsFor(model, flow, CommodityIds[ci], es, Len(es))
     IN /\ model' = r.model
        /\ flow' = r.flow
  /\ IF ci < Len(CommodityIds)
       THEN ci' = ci + 1 /\ pc' = "vars"
       ELSE ci' = 1 /\ pc' = "objective"
  /\ UNCHANGED <<heap, caller, loc, with_ferry, status, x,
                 distance_without_ferry, distance_with_ferry,
                 distance_reduction, percent_reduction, out, builds>>

\* lines 30-36
SetObjective ==
  /\ pc = "objective"
  /\ model' = [model EXCEPT
                 !.obj = Objective(model, flow, heap[loc.edges], heap[loc.distances])]
  /\ pc' = "conservation"
  /\ UNCHANGED <<heap, caller, loc, with_ferry, ci, flow, status, x,
                 distance_without_ferry, distance_with_ferry,
                 distance_reduction, percent_reduction, out, builds>>

\* one iteration of the outer loop of lines 39-67
AddConservation ==
  /\ pc = "conservation"
  /\ model' = [model EXCEPT !.constrs = @ \o
                 ConservationConstrs(model, flow, heap[loc.nodes], heap[loc.edges],
                                     heap[loc.travel_demand], CommodityIds[ci])]
  /\ IF ci < Len(CommodityIds)
       THEN ci' = ci + 1 /\ pc' = "conservation"
       ELSE ci' = 1 /\ pc' = (IF with_ferry THEN "capacity" ELSE "optimize")
  /\ UNCHANGED <<heap, caller, loc, with_ferry, flow, status, x,
                 distance_without_ferry, distance_with_ferry,
                 distance_reduction, percent_reduction, out, builds>>

\* a faulty builder: only the direction 2 -> 6 is bounded
AddCapacityOneDirection ==
  /\ pc = "capacity"
  /\ model' = [model EXCEPT !.constrs = @ \o
       <<CapacityConstrFirstCommodity(model, flow, "ferry_2_to_6_capacity_constraint", 2, 6)>>]
  /\ pc' = "optimize"
  /\ UNCHANGED <<heap, caller, loc, with_ferry, ci, flow, status, x,
                 distance_without_ferry, distance_with_ferry,
                 distance_reduction, percent_reduction, out, builds>>

\* lines 70-81
AddCapacity ==
  /\ pc = "capacity"
  /\ model' = [model EXCEPT !.constrs = @ \o
       <<CapacityConstr(model, flow, "ferry_2_to_6_capacity_constraint", 2, 6),
         CapacityConstr(model, flow, "ferry_6_to_2_capacity_constraint", 6, 2)>>]
  /\ pc' = "optimize"
  /\ UNCHANGED <<heap, caller, loc, with_ferry, ci, flow, status, x,
                 distance_without_ferry, distance_with_ferry,
                 distance_reduction, percent_reduction, out, builds>>

\* line 84, with the answer st and, when it is Optimal, the solution xs
Optimized(st, xs) ==
  /\ pc = "optimize"
  /\ status' = st
  /\ x' = xs
  /\ builds' = Append(builds, [with_ferry |-> with_ferry, model |-> model,
                               flow |-> flow, status |-> st, x |-> xs,
                               reads |-> {}, result |-> None])
  /\ pc' = "report"
  /\ UNCHANGED <<heap, caller, loc, with_ferry, ci, flow, model,
                 distance_without_ferry, distance_with_ferry,
                 distance_reduction, percent_reduction, out>>

\* the solver returns an optimal solution
OptimizeOptimal ==
  /\ pc = "optimize"
  /\ \E xs \in OptimalSolutions(model) : Optimized("Optimal", xs)

\* the solver finds that no optimal solution exists
OptimizeNoOptimum ==
  /\ pc = "optimize"
  /\ OptimalSolutions(model) = {}
  /\ \E st \in {"Infeasible", "Unbounded"} : Optimized(st, <<>>)

\* the solver stops without an answer (time limit, interrupt, numeric trouble)
OptimizeError == Optimized("Error", <<>>)

\* lines 86-140 and the assignment of the returned value at the call site
Report ==
  /\ pc = "report"
  /\ LET o == Outcome(status, model, flow, x, heap[loc.edges], with_ferry)
     IN /\ out' = out \o o.lines
        /\ builds' = [builds EXCEPT ![Len(builds)].reads = o.reads,
                                    ![Len(builds)].result = o.result]
        /\ distance_without_ferry' =
             (IF caller = "scenario1" THEN o.result ELSE distance_without_ferry)
        /\ distance_with_ferry' =
             (IF caller = "scenario2" THEN o.result ELSE distance_with_ferry)
  /\ heap' = [r \in ModuleRefs |-> heap[r]]
  /\ pc' = CASE caller = "scenario1" -> "scenario2"
              [] caller = "scenario2" -> "compare"
              [] OTHER -> "idle"
  /\ caller' = "none"
  /\ loc' = NoLoc
  /\ with_ferry' = FALSE
  /\ ci' = 0
  /\ flow' = <<>>
  /\ model' = EmptyModel
  /\ status' = "Loaded"
  /\ x' = <<>>
  /\ UNCHANGED <<distance_reduction, percent_reduction>>

\* lines 184-189
Compare ==
  /\ pc = "compare"
  /\ IF distance_without_ferry # None /\ distance_with_ferry # None
       THEN LET reduction == distance_without_ferry[1] - distance_with_ferry[1]
            IN /\ distance_reduction' = Some(reduction)
               /\ IF distance_without_ferry[1] = 0
                    THEN \* ZeroDivisionError at line 186
                         /\ pc' = "raised"
                         /\ UNCHANGED <<percent_reduction, out>>
                    ELSE /\ pc' = "done"
                         /\ percent_reduction' =
                              Some(Fmt2(reduction * 100, distance_without_ferry[1]))
                         /\ out' = out \o
                              <<Line("Distance Reduction:", "", <<Fmt2(reduction, 10)>>),
                                Line("Percentage Reduction:", "",
                                     <<Fmt2(reduction * 100, distance_without_ferry[1])>>)>>
       ELSE /\ pc' = "done"
            /\ UNCHANGED <<distance_reduction, percent_reduction, out>>
  /\ UNCHANGED <<heap, caller, loc, with_ferry, ci, flow, model, status, x,
                 distance_without_ferry, distance_with_ferry, builds>>

Solve ==
  \/ AddFerry
  \/ AddVars
  \/ SetObjective
  \/ AddConservation
  \/ AddCapacity
  \/ OptimizeOptimal
  \/ OptimizeNoOptimum
  \/ OptimizeError
  \/ Report

Next == Scenario1 \/ Scenario2 \/ Solve \/ Compare

Spec == Init /\ [][Next]_vars

(***************************************************************************)
(* A client of the function other than the script: it calls it as the      *)
(* script does, with copies of the module-level parameters, any scenario   *)
(* in any order, MaxCalls times.                                           *)
(***************************************************************************)
InitClient == InitWith("idle")

Call ==
  /\ pc = "idle"
  /\ Len(builds) < MaxCalls
  /\ \E ferry \in BOOLEAN : Enter("client", ferry)
  /\ UNCHANGED <<distance_without_ferry, distance_with_ferry,
                 distance_reduction, percent_reduction, out, builds>>

NextClient == Call \/ Solve

SpecClient == InitClient /\ [][NextClient]_vars

(***************************************************************************)
(* Feasible solutions of a built LP, for the properties that speak of      *)
(* every feasible solution.  The LP of the reference data has too many     *)
(* columns to enumerate; a model of at most MaxProbeCols columns is probed *)
(* with every vector over the values 0 and the right-hand sides of its     *)
(* rows, commodity by commodity, and the vectors kept are those the whole  *)
(* model accepts.                                                          *)
(***************************************************************************)
MaxProbeCols == 21

ProbeValues(m) == {0} \cup {m.constrs[r].rhs : r \in Rows(m)}

ColsOf(m, commodity) == {k \in Cols(m) : m.vars[k].name[1] = commodity}

RowsOf(m, commodity) == {r \in Rows(m) : m.constrs[r].name.commodity = commodity}

\* the vectors over one commodity's columns that its own rows accept
CommodityFlows(m, commodity) ==
  LET cols == ColsOf(m, commodity)
  IN {f \in [cols -> ProbeValues(m)] :
        \A r \in RowsOf(m, commodity) :
          SumOver(cols, [k \in cols |-> m.constrs[r].lhs[k] * f[k]]) = m.constrs[r].rhs}

FeasibleProbes(m) ==
  IF NumVars(m) > MaxProbeCols THEN {}
  ELSE {xs \in {f1 @@ f4 @@ f5 : f1 \in CommodityFlows(m, "O1"),
                                  f4 \in CommodityFlows(m, "O4"),
                                  f5 \in CommodityFlows(m, "O5")} :
          PrimalFeasible(m, xs)}

\* the module-level parameters are the reference dataset
IsReference ==
  [nodes |-> heap[NodesRef], edges |-> heap[EdgesRef],
   travel_demand |-> heap[DemandRef], distances |-> heap[DistancesRef]] = Reference

\* the flow of a commodity into and out of a node, over the edge set
Inflow(fl, xs, es, commodity, node) ==
  LET into == {e \in Range(es) : e[2] = node}
  IN SumOver(into, [e \in into |-> xs[fl[<<commodity, e[1], e[2]>>]]])

Outflow(fl, xs, es, commodity, node) ==
  LET from == {e \in Range(es) : e[1] = node}
  IN SumOver(from, [e \in from |-> xs[fl[<<commodity, e[1], e[2]>>]]])

\* the demand a commodity's origin sends to its declared destinations
TotalDemand(td, commodity) ==
  LET origin == commodities[commodity].origin
      dests == Range(commodities[commodity].destinations)
      pairs == {<<origin, d>> : d \in dests} \cap DOMAIN td
  IN SumOver(pairs, td)

\* conservation of a commodity at a node, as the contract states it
ConservedAt(fl, xs, es, td, commodity, node) ==
  LET origin == commodities[commodity].origin
      fin == Inflow(fl, xs, es, commodity, node)
      fout == Outflow(fl, xs, es, commodity, node)
  IN IF node = origin THEN fout - fin = TotalDemand(td, commodity)
     ELSE IF node \in Range(commodities[commodity].destinations)
       THEN fin - fout = (IF <<origin, node>> \in DOMAIN td THEN td[<<origin, node>>] ELSE 0)
     ELSE fin = fout

\* conservation of every commodity at every node of the running call
Conserved(xs) ==
  \A c \in Range(CommodityIds) : \A n \in Range(heap[loc.nodes]) :
    ConservedAt(flow, xs, heap[loc.edges], heap[loc.travel_demand], c, n)

\* the flow of all commodities together on the arc i -> j
ArcTotal(fl, xs, i, j) ==
  SumOver(Range(CommodityIds), [c \in Range(CommodityIds) |-> xs[fl[<<c, i, j>>]]])

\* C1: every feasible solution of the built LP, and every solution the
\* solver returns, conserves every commodity at every node: the origin's net
\* outflow is the total demand to the declared destinations, a declared
\* destination's net inflow is its demand (0 if absent), any other node has
\* inflow equal to outflow; sums run over the edge set, ferry arcs included
C1_Conservation ==
  /\ pc = "optimize" => \A xs \in FeasibleProbes(model) : Conserved(xs)
  /\ (pc = "report" /\ status = "Optimal") => Conserved(x)

\* a feasible solution of an augmented LP that sends flow over the ferry
C1_Witness ==
  /\ pc = "optimize"
  /\ with_ferry
  /\ <<8, 9>> \in Range(heap[loc.edges])
  /\ \E xs \in FeasibleProbes(model) :
       /\ xs[flow[<<"O1", 2, 6>>]] > 0
       /\ xs[flow[<<"O1", 8, 9>>]] > 0

\* C2: with the ferry, every feasible solution and every returned solution
\* carries at most 2000 on 2 -> 6 and at most 2000 on 6 -> 2, summed over
\* all commodities; without the ferry the LP has no inequality at all
C2_SharedCapacity ==
  /\ (pc = "optimize" /\ with_ferry) =>
       \A xs \in FeasibleProbes(model) :
         ArcTotal(flow, xs, 2, 6) <= 2000 /\ ArcTotal(flow, xs, 6, 2) <= 2000
  /\ (pc = "report" /\ with_ferry /\ status = "Optimal") =>
       ArcTotal(flow, x, 2, 6) <= 2000 /\ ArcTotal(flow, x, 6, 2) <= 2000
  /\ (pc \in {"optimize", "report"} /\ ~with_ferry) =>
       \A r \in Rows(model) : model.constrs[r].sense = "="

\* a feasible solution in which two commodities together fill the crossing
C2_Witness ==
  /\ pc = "optimize"
  /\ with_ferry
  /\ \E xs \in FeasibleProbes(model) :
       /\ xs[flow[<<"O1", 2, 6>>]] = 1000
       /\ xs[flow[<<"O4", 2, 6>>]] = 1000
       /\ ArcTotal(flow, xs, 2, 6) = 2000

\* the positions of a call at which it builds its LP
BuildPcs == {"vars", "objective", "conservation", "capacity", "optimize"}

\* the names of a model's variables
VarNames(m) == {m.vars[k].name : k \in Cols(m)}

\* C3: the module-level nodes, edges, travel_demand and distances are at
\* all times one of the given parameter sets, a call without the ferry
\* builds from data equal to them, and its LP has no ferry variable and no
\* capacity row, whether it runs before or after a call with the ferry; any
\* two calls without the ferry build the same LP
C3_Isolation ==
  /\ [nodes |-> heap[NodesRef], edges |-> heap[EdgesRef],
      travel_demand |-> heap[DemandRef], distances |-> heap[DistancesRef]] \in DataSets
  /\ (pc \in BuildPcs /\ ~with_ferry) =>
       /\ heap[loc.nodes] = heap[NodesRef]
       /\ heap[loc.edges] = heap[EdgesRef]
       /\ heap[loc.travel_demand] = heap[DemandRef]
       /\ heap[loc.distances] = heap[DistancesRef]
  /\ \A i \in DOMAIN builds :
       ~builds[i].with_ferry =>
         /\ \A name \in VarNames(builds[i].model) :
              <<name[2], name[3]>> \in Range(heap[EdgesRef])
         /\ PricedRows(builds[i].model) = {}
         /\ \A j \in DOMAIN builds :
              ~builds[j].with_ferry => builds[j].model = builds[i].model

\* a call without the ferry has built its LP after a call with the ferry,
\* which followed another call without it
C3_Witness ==
  /\ IsReference
  /\ pc = "optimize"
  /\ ~with_ferry
  /\ Len(builds) = 2
  /\ ~builds[1].with_ferry
  /\ builds[2].with_ferry
  /\ <<"O1", 2, 6>> \in VarNames(builds[2].model)

\* the LPs built so far, each with the flag it was built for
Built ==
  {[with_ferry |-> builds[i].with_ferry, model |-> builds[i].model] : i \in DOMAIN builds}
  \cup (IF pc = "optimize" THEN {[with_ferry |-> with_ferry, model |-> model]} ELSE {})

\* C8: two calls with the same parameters and the same with_ferry flag build
\* LPs with the same variables and the same number of constraints, however
\* many calls ran before them and in whatever order
C8_Determinism ==
  \A a \in Built : \A b \in Built :
    a.with_ferry = b.with_ferry =>
      /\ VarNames(a.model) = VarNames(b.model)
      /\ NumVars(a.model) = NumVars(b.model)
      /\ Len(a.model.constrs) = Len(b.model.constrs)

\* two calls with the ferry on the reference data, a call without it between
C8_Witness ==
  /\ IsReference
  /\ Len(builds) = 3
  /\ builds[1].with_ferry
  /\ ~builds[2].with_ferry
  /\ builds[3].with_ferry
  /\ NumVars(builds[3].model) = 42

\* C10: the built LP has exactly one continuous variable with lower bound 0
\* per commodity and edge, exactly one conservation equality per commodity
\* and node, and exactly two capacity inequalities if with_ferry and none
\* otherwise; the reference data give 36 variables and 21 constraints
\* without the ferry, 42 and 23 with it
C10_Structure ==
  pc = "optimize" =>
    LET es == heap[loc.edges]
        ns == heap[loc.nodes]
        capacity == IF with_ferry THEN 2 ELSE 0
    IN /\ \A c \in Range(CommodityIds) : \A e \in Range(es) :
            Cardinality({k \in Cols(model) :
                           model.vars[k].name = <<c, e[1], e[2]>>}) = 1
       /\ \A k \in Cols(model) :
            /\ model.vars[k].lb = 0
            /\ model.vars[k].vtype = "CONTINUOUS"
            /\ model.vars[k].name[1] \in Range(CommodityIds)
            /\ <<model.vars[k].name[2], model.vars[k].name[3]>> \in Range(es)
       /\ \A c \in Range(CommodityIds) : \A n \in Range(ns) :
            Cardinality({r \in Rows(model) :
                           /\ model.constrs[r].name = ConstrName("flow_conservation", c, n)
                           /\ model.constrs[r].sense = "="}) = 1
       /\ Cardinality(PricedRows(model)) = capacity
       /\ Len(model.constrs) = Len(CommodityIds) * Len(ns) + capacity
       /\ IsReference =>
            /\ NumVars(model) = (IF with_ferry THEN 42 ELSE 36)
            /\ Len(model.constrs) = (IF with_ferry THEN 23 ELSE 21)

\* the LP of the reference data with the ferry is built
C10_Witness ==
  /\ IsReference
  /\ pc = "optimize"
  /\ with_ferry
  /\ NumVars(model) = 42
  /\ Len(model.constrs) = 23

\* some line printed so far has this text and these numbers
Printed(text, args) ==
  \E k \in DOMAIN out : out[k].text = text /\ out[k].args = args

\* C4: for the reference data the solver finds an optimum in both
\* scenarios, 399250.00 without the ferry and 280770.00 with it, and the
\* comparison reports the reduction 118480.00, which is 29.68%
C4_ReferenceOptimum ==
  IsReference =>
    /\ \A i \in DOMAIN builds :
         /\ builds[i].status \in {"Optimal", "Error"}
         /\ builds[i].status = "Optimal" =>
              ObjVal(builds[i].model, builds[i].x) =
                (IF builds[i].with_ferry THEN 2807700 ELSE 3992500)
    /\ distance_without_ferry \in {None, Some(3992500)}
    /\ distance_with_ferry \in {None, Some(2807700)}
    /\ distance_without_ferry # None => Printed("Total Driving Distance:", <<39925000>>)
    /\ distance_with_ferry # None => Printed("Total Driving Distance:", <<28077000>>)
    /\ (pc = "done" /\ distance_without_ferry # None /\ distance_with_ferry # None) =>
         /\ distance_reduction = Some(1184800)
         /\ percent_reduction = Some(2968)
         /\ Printed("Distance Reduction:", <<11848000>>)
         /\ Printed("Percentage Reduction:", <<2968>>)

\* the script has compared the two optima of the reference data
C4_Witness ==
  /\ IsReference
  /\ pc = "done"
  /\ distance_without_ferry = Some(3992500)
  /\ distance_with_ferry = Some(2807700)
  /\ percent_reduction = Some(2968)

\* a solution of the LP without the ferry, with 0 on the columns it lacks
Extended(base, xb, m) ==
  [k \in Cols(m) |->
     LET same == {q \in Cols(base) : base.vars[q].name = m.vars[k].name}
     IN IF same = {} THEN 0 ELSE xb[CHOOSE q \in same : TRUE]] @@ <<>>

\* the solutions of a finished build that are known to be feasible
KnownFeasible(b) ==
  FeasibleProbes(b.model) \cup (IF b.status = "Optimal" THEN {b.x} ELSE {})

\* C5: when both scenarios return a result the one with the ferry is not
\* larger, so the reduction is not negative; and every feasible solution of
\* the LP without the ferry, with zero flow on both ferry arcs, is feasible
\* for the LP with the ferry at the same cost
C5_Monotone ==
  /\ (distance_without_ferry # None /\ distance_with_ferry # None) =>
       distance_with_ferry[1] <= distance_without_ferry[1]
  /\ distance_reduction # None => distance_reduction[1] >= 0
  /\ (pc = "optimize" /\ with_ferry) =>
       \A i \in DOMAIN builds :
         ~builds[i].with_ferry =>
           \A xb \in KnownFeasible(builds[i]) :
             LET xa == Extended(builds[i].model, xb, model)
             IN /\ PrimalFeasible(model, xa)
                /\ ObjVal(model, xa) = ObjVal(builds[i].model, xb)

\* the LP with the ferry is built after the one without it was solved, and
\* the LP without it has a feasible solution, which passes through node 8
C5_Witness ==
  /\ pc = "optimize"
  /\ with_ferry
  /\ Len(builds) = 1
  /\ ~builds[1].with_ferry
  /\ builds[1].status = "Optimal"
  /\ \E xb \in FeasibleProbes(builds[1].model) :
       /\ xb[builds[1].flow[<<"O1", 8, 9>>]] = 2000
       /\ PrimalFeasible(model, Extended(builds[1].model, xb, model))

\* C6: a call whose solver status is not Optimal reads neither the
\* objective value nor a variable value and returns None; the reduction and
\* the percentage are computed, and printed, only if both calls returned a
\* result
C6_NoResultWithoutOptimum ==
  /\ \A i \in DOMAIN builds :
       builds[i].status # "Optimal" =>
         builds[i].reads = {} /\ builds[i].result = None
  /\ (pc \in {"scenario2", "compare", "done", "raised"} /\ builds[1].status # "Optimal") =>
       distance_without_ferry = None
  /\ (pc \in {"compare", "done", "raised"} /\ builds[2].status # "Optimal") =>
       distance_with_ferry = None
  /\ ( \/ distance_reduction # None
       \/ percent_reduction # None
       \/ \E k \in DOMAIN out :
            out[k].text \in {"Distance Reduction:", "Percentage Reduction:"} ) =>
       /\ distance_without_ferry # None
       /\ distance_with_ferry # None
       /\ builds[1].status = "Optimal"
       /\ builds[2].status = "Optimal"

\* the script ends after an infeasible first scenario and an optimal second
C6_Witness ==
  /\ pc = "done"
  /\ builds[1].status = "Infeasible"
  /\ builds[2].status = "Optimal"
  /\ distance_without_ferry = None
  /\ distance_with_ferry # None
  /\ distance_reduction = None

\* C7: for the reference data every optimal solution returned, without and
\* with the ferry, carries 2850 on edge 1 -> 2, all of it commodity O1, and
\* the report prints that edge so
C7_Edge12 ==
  (IsReference /\ pc = "report" /\ status = "Optimal") =>
    /\ ReadX(x, flow[<<"O1", 1, 2>>]) = 2850
    /\ ReadX(x, flow[<<"O4", 1, 2>>]) = 0
    /\ ReadX(x, flow[<<"O5", 1, 2>>]) = 0
    /\ EdgeTotal(flow, x, 1, 2) = 2850
    /\ FlowLines("    commodity:", flow, x, 1, 2) =
         <<Line("    commodity:", "O1", <<285000>>)>>

\* an optimal solution of the reference data with the ferry is reported
C7_Witness ==
  /\ IsReference
  /\ pc = "report"
  /\ status = "Optimal"
  /\ with_ferry
  /\ ReadX(x, flow[<<"O1", 2, 6>>]) > 0
  /\ EdgeTotal(flow, x, 1, 2) = 2850

\* the texts of the lines that the scenarios and the comparison print
ScenarioTexts ==
  {"Scenario 1: Without Ferry", "Scenario 2: With Ferry", "With Ferry:",
   "Without Ferry:", "Total Driving Distance:", "Edge Flows:", "Edge i -> j:",
   "  Total Flow:", "    commodity:", "Ferry Usage:", "2 -> 6 Ferry Flows:",
   "  commodity:", "Total 2 -> 6 Flow:", "6 -> 2 Ferry Flows:",
   "Total 6 -> 2 Flow:", "No optimal solution available"}

ReductionTexts == {"Distance Reduction:", "Percentage Reduction:"}

\* the lines printed from the header of a scenario up to the next header
ScenarioLines(header) ==
  LET at == CHOOSE k \in DOMAIN out : out[k].text = header
      later == {k \in DOMAIN out : k > at /\ out[k].text = "Scenario 2: With Ferry"}
      stop == IF later = {} THEN Len(out) + 1 ELSE CHOOSE k \in later : TRUE
  IN SubSeq(out, at + 1, stop - 1)

\* C9: when the script ends and a scenario's solve was not Optimal, the
\* failed scenario printed that it has no optimal solution under its own
\* header, a scenario that succeeded printed its distance, and some line
\* states that the reduction could not be computed
C9_FailureReported ==
  (pc = "done" /\ \E i \in DOMAIN builds : builds[i].status # "Optimal") =>
    /\ \A i \in DOMAIN builds :
         LET header == IF builds[i].with_ferry THEN "Scenario 2: With Ferry"
                       ELSE "Scenario 1: Without Ferry"
             lines == ScenarioLines(header)
         IN IF builds[i].status = "Optimal"
              THEN \E k \in DOMAIN lines : lines[k].text = "Total Driving Distance:"
            ELSE \E k \in DOMAIN lines : lines[k].text = "No optimal solution available"
    /\ \E k \in DOMAIN out : out[k].text \notin ScenarioTexts \cup ReductionTexts

====
